---- MODULE Spec2Model ----
(***************************************************************************)
(* State-machine model of the lattice Boltzmann engine of src/src/lib.rs   *)
(* (struct Lattice and struct Config).                                     *)
(*                                                                         *)
(* Numbers: every f64 of the program is modelled by an exact rational      *)
(* <<numerator, denominator>> in lowest terms with a positive denominator, *)
(* so two numbers are equal exactly when their tuples are equal.  IEEE     *)
(* rounding is not modelled; every expression is evaluated in the order    *)
(* the source writes it.                                                   *)
(***************************************************************************)
EXTENDS Integers, Sequences, FiniteSets, TLC

VARIABLES width, height, steps_per_frame, flow_speed, draw_mode, omega,
          cells_one, cells_two, use_one, density, ux, uy, curl,
          barrier_set, barrier, flow_particles_x, flow_particles_y,
          pc, step, nstream, ncalls

vars == <<width, height, steps_per_frame, flow_speed, draw_mode, omega,
          cells_one, cells_two, use_one, density, ux, uy, curl,
          barrier_set, barrier, flow_particles_x, flow_particles_y,
          pc, step, nstream, ncalls>>

-----------------------------------------------------------------------------
(* Rational arithmetic standing for f64 arithmetic.                        *)

\* largest numerator and denominator the model represents
Precision == 30000

\* a number the model does not represent: a rational that needs more than
\* Precision, or the result of a division by zero
Unrep == <<0, 0>>

Abs(a) == IF a < 0 THEN -a ELSE a

RECURSIVE Gcd(_, _)
Gcd(a, b) == IF b = 0 THEN a ELSE Gcd(b, a % b)

\* n / d (d > 0) in lowest terms
Q(n, d) ==
    LET g == Gcd(Abs(n), d)
    IN  IF Abs(n) \div g > Precision \/ d \div g > Precision
        THEN Unrep
        ELSE <<n \div g, d \div g>>

Zero == <<0, 1>>
One == <<1, 1>>

Add(a, b) ==
    IF a = Unrep \/ b = Unrep THEN Unrep
    ELSE IF a[2] = b[2] THEN Q(a[1] + b[1], a[2])
    ELSE LET g == Gcd(a[2], b[2])
         IN  Q(a[1] * (b[2] \div g) + b[1] * (a[2] \div g), (a[2] \div g) * b[2])

Neg(a) == <<-a[1], a[2]>>

Sub(a, b) == Add(a, Neg(b))

Mul(a, b) ==
    IF a = Unrep \/ b = Unrep THEN Unrep
    ELSE IF a[1] = 0 \/ b[1] = 0 THEN Zero
    ELSE LET g1 == Gcd(Abs(a[1]), b[2])
             g2 == Gcd(Abs(b[1]), a[2])
         IN  Q((a[1] \div g1) * (b[1] \div g2), (a[2] \div g2) * (b[2] \div g1))

Div(a, b) ==
    IF a = Unrep \/ b = Unrep \/ b = Zero THEN Unrep
    ELSE IF b[1] < 0 THEN Mul(a, <<-b[2], -b[1]>>)
    ELSE Mul(a, <<b[2], b[1]>>)

\* a > b
Gt(a, b) == a # Unrep /\ b # Unrep /\ a[1] * b[2] > b[1] * a[2]

\* f64::floor followed by the saturating cast `as u32`
FloorU32(a) == IF a = Unrep \/ a[1] < 0 THEN 0 ELSE a[1] \div a[2]

\* `n as f64` for an integer n
AsF64(n) == <<n, 1>>

-----------------------------------------------------------------------------
(* Constants of the program.                                               *)

FOUR9THS == <<4, 9>>
ONE9TH == <<1, 9>>
ONE36TH == <<1, 36>>

Three == <<3, 1>>
Two == <<2, 1>>
FourPt5 == <<9, 2>>
OnePt5 == <<3, 2>>

Dirs == {"c", "e", "n", "w", "s", "ne", "nw", "sw", "se"}

MkCell(c, e, n, w, s, ne, nw, sw, se) ==
    [c |-> c, e |-> e, n |-> n, w |-> w, s |-> s,
     ne |-> ne, nw |-> nw, sw |-> sw, se |-> se]

DefaultCell == MkCell(Zero, Zero, Zero, Zero, Zero, Zero, Zero, Zero, Zero)

Add3(a, b, c) == Add(Add(a, b), c)

CellRho(cell) ==
    Add(Add(Add(Add(Add(Add(Add(Add(cell.c, cell.e), cell.n), cell.w), cell.s),
        cell.ne), cell.nw), cell.sw), cell.se)

CellUx(cell) ==
    LET rho == CellRho(cell)
    IN  IF rho # Zero
        THEN Div(Sub(Sub(Sub(Add3(cell.e, cell.ne, cell.se), cell.w), cell.nw), cell.sw), rho)
        ELSE Zero

CellUy(cell) ==
    LET rho == CellRho(cell)
    IN  IF rho # Zero
        THEN Div(Sub(Sub(Sub(Add3(cell.s, cell.sw, cell.se), cell.n), cell.ne), cell.nw), rho)
        ELSE Zero

\* omega = 1.0 / (3.0 * viscosity + 0.5)
OmegaOf(viscosity) == Div(One, Add(Mul(Three, viscosity), <<1, 2>>))

\* The nine values init_flow computes for (vx, vy, rho)
InitFlowCell(vx, vy, rho) ==
    LET ux3 == Mul(Three, vx)
        uy3 == Mul(Three, Neg(vy))
        ux2 == Mul(vx, vx)
        uy2 == Mul(Neg(vy), Neg(vy))
        uxuy2 == Mul(Mul(Two, vx), Neg(vy))
        u2 == Add(ux2, uy2)
        u215 == Mul(OnePt5, u2)
        w9 == Mul(ONE9TH, rho)
        w36 == Mul(ONE36TH, rho)
    IN  MkCell(
          Mul(Mul(FOUR9THS, rho), Sub(One, u215)),
          Mul(w9, Sub(Add(Add(One, ux3), Mul(FourPt5, ux2)), u215)),
          Mul(w9, Sub(Add(Add(One, uy3), Mul(FourPt5, uy2)), u215)),
          Mul(w9, Sub(Add(Sub(One, ux3), Mul(FourPt5, ux2)), u215)),
          Mul(w9, Sub(Add(Sub(One, uy3), Mul(FourPt5, uy2)), u215)),
          Mul(w36, Sub(Add(Add(Add(One, ux3), uy3), Mul(FourPt5, Add(u2, uxuy2))), u215)),
          Mul(w36, Sub(Add(Add(Sub(One, ux3), uy3), Mul(FourPt5, Sub(u2, uxuy2))), u215)),
          Mul(w36, Sub(Add(Sub(Sub(One, ux3), uy3), Mul(FourPt5, Add(u2, uxuy2))), u215)),
          Mul(w36, Sub(Add(Sub(Add(One, ux3), uy3), Mul(FourPt5, Sub(u2, uxuy2))), u215)))

-----------------------------------------------------------------------------
(* Grid geometry: flat row-major indices as lib.rs computes them.          *)

Idx == 0 .. (width * height - 1)
XOf(idx) == idx % width
YOf(idx) == idx \div width

\* the test `x == 0 || y == 0 || x >= wid - 1 || y >= hei - 1` of stream and collide
OnRing(idx) ==
    XOf(idx) = 0 \/ YOf(idx) = 0 \/ XOf(idx) >= width - 1 \/ YOf(idx) >= height - 1

\* make_vec: width * height default values
make_vec(wid, hei, dflt) == [idx \in 0 .. (wid * hei - 1) |-> dflt]

\* the buffer selected by `if self.use_one`
Active == IF use_one THEN cells_one ELSE cells_two
Inactive == IF use_one THEN cells_two ELSE cells_one

-----------------------------------------------------------------------------
(* set_boundaries                                                          *)

\* the indices the two loops of set_boundaries assign
BoundaryIdx ==
    {x : x \in 0 .. (width - 2)}
    \cup {(height - 1) * width + x : x \in 0 .. (width - 2)}
    \cup {y * width : y \in 0 .. (height - 2)}
    \cup {y * width + (width - 1) : y \in 0 .. (height - 2)}

\* zero .. eight of set_boundaries: ux = flow_speed, uy = 0.0, rho = 1.0
BoundaryCell(speed) == InitFlowCell(speed, Zero, One)

set_boundaries(cells) ==
    LET bc == BoundaryCell(flow_speed)
    IN  [idx \in DOMAIN cells |-> IF idx \in BoundaryIdx THEN bc ELSE cells[idx]]

-----------------------------------------------------------------------------
(* stream                                                                  *)

\* a stream that copies the interior cells only
StreamCell_RingKept(cells, old, idx) ==
    LET x == XOf(idx)
        y == YOf(idx)
    IN  IF OnRing(idx)
        THEN old
        ELSE [old EXCEPT !.c = cells[idx].c,
                         !.n = cells[(y - 1) * width + x].n,
                         !.nw = cells[(y - 1) * width + (x + 1)].nw,
                         !.e = cells[y * width + (x - 1)].e,
                         !.ne = cells[(y - 1) * width + (x - 1)].ne,
                         !.s = cells[(y + 1) * width + x].s,
                         !.se = cells[(y + 1) * width + (x - 1)].se,
                         !.w = cells[y * width + (x + 1)].w,
                         !.sw = cells[(y + 1) * width + (x + 1)].sw]

\* a stream that forgets the center component of the interior cells
StreamCell_CenterKept(cells, old, idx) ==
    LET x == XOf(idx)
        y == YOf(idx)
    IN  IF OnRing(idx)
        THEN [old EXCEPT !.c = cells[idx].c, !.n = cells[idx].n, !.nw = cells[idx].nw,
                         !.e = cells[idx].e, !.ne = cells[idx].ne, !.s = cells[idx].s,
                         !.se = cells[idx].se, !.w = cells[idx].w, !.sw = cells[idx].sw]
        ELSE [old EXCEPT !.n = cells[(y - 1) * width + x].n,
                         !.nw = cells[(y - 1) * width + (x + 1)].nw,
                         !.e = cells[y * width + (x - 1)].e,
                         !.ne = cells[(y - 1) * width + (x - 1)].ne,
                         !.s = cells[(y + 1) * width + x].s,
                         !.se = cells[(y + 1) * width + (x - 1)].se,
                         !.w = cells[y * width + (x + 1)].w,
                         !.sw = cells[(y + 1) * width + (x + 1)].sw]

\* first loop of stream: every index of `buffer` is assigned from `cells`
StreamCell(cells, old, idx) ==
    LET x == XOf(idx)
        y == YOf(idx)
    IN  IF OnRing(idx)
        THEN [old EXCEPT !.c = cells[idx].c, !.n = cells[idx].n, !.nw = cells[idx].nw,
                         !.e = cells[idx].e, !.ne = cells[idx].ne, !.s = cells[idx].s,
                         !.se = cells[idx].se, !.w = cells[idx].w, !.sw = cells[idx].sw]
        ELSE [old EXCEPT !.c = cells[idx].c,
                         !.n = cells[(y - 1) * width + x].n,
                         !.nw = cells[(y - 1) * width + (x + 1)].nw,
                         !.e = cells[y * width + (x - 1)].e,
                         !.ne = cells[(y - 1) * width + (x - 1)].ne,
                         !.s = cells[(y + 1) * width + x].s,
                         !.se = cells[(y + 1) * width + (x - 1)].se,
                         !.w = cells[y * width + (x + 1)].w,
                         !.sw = cells[(y + 1) * width + (x + 1)].sw]

StreamBulk(cells, buffer) == [idx \in DOMAIN buffer |-> StreamCell(cells, buffer[idx], idx)]

\* body of the second loop of stream for one barrier index
BounceOne(cells, buffer, idx) ==
    LET x == XOf(idx)
        y == YOf(idx)
        cell == cells[idx]
    IN  [buffer EXCEPT ![y * width + (x + 1)].e = cell.w,
                       ![(y + 1) * width + x].n = cell.s,
                       ![y * width + (x - 1)].w = cell.e,
                       ![(y - 1) * width + x].s = cell.n,
                       ![(y + 1) * width + (x + 1)].ne = cell.sw,
                       ![(y + 1) * width + (x - 1)].nw = cell.se,
                       ![(y - 1) * width + (x - 1)].sw = cell.ne,
                       ![(y - 1) * width + (x + 1)].se = cell.nw]

\* `for &idx in self.barrier_set.iter()`: the set is visited in some order
RECURSIVE BounceBack(_, _, _)
BounceBack(todo, cells, buffer) ==
    IF todo = {} THEN buffer
    ELSE LET idx == CHOOSE b \in todo : TRUE
         IN  BounceBack(todo \ {idx}, cells, BounceOne(cells, buffer, idx))

\* a stream without its second loop
StreamInto_NoBounce(cells, buffer) == StreamBulk(cells, buffer)

StreamInto(cells, buffer) == BounceBack(barrier_set, cells, StreamBulk(cells, buffer))

-----------------------------------------------------------------------------
(* collide                                                                 *)

\* a collide without the `continue` of the ring cells
Relaxed_RingToo(idx) == idx \notin barrier_set

\* the cells collide relaxes: not on the ring, not a barrier
Relaxed(idx) == ~OnRing(idx) /\ idx \notin barrier_set

\* a collide whose north equilibrium carries the sign of the south one
CollideCell_NorthAsSouth(cell, om) ==
    LET rho == CellRho(cell)
        cux == CellUx(cell)
        cuy == CellUy(cell)
        ux3 == Mul(Three, cux)
        uy3 == Mul(Three, cuy)
        ux2 == Mul(cux, cux)
        uy2 == Mul(cuy, cuy)
        uxuy2 == Mul(Mul(Two, cux), cuy)
        u2 == Add(ux2, uy2)
        u215 == Mul(OnePt5, u2)
        one9thrho == Mul(ONE9TH, rho)
        one36thrho == Mul(ONE36TH, rho)
        ux3p1 == Add(One, ux3)
        ux3m1 == Sub(One, ux3)
        Relax(f, feq) == Add(f, Mul(om, Sub(feq, f)))
    IN  MkCell(
          Relax(cell.c, Mul(Mul(FOUR9THS, rho), Sub(One, u215))),
          Relax(cell.e, Mul(one9thrho, Sub(Add(ux3p1, Mul(FourPt5, ux2)), u215))),
          Relax(cell.n, Mul(one9thrho, Sub(Add(Add(One, uy3), Mul(FourPt5, uy2)), u215))),
          Relax(cell.w, Mul(one9thrho, Sub(Add(ux3m1, Mul(FourPt5, ux2)), u215))),
          Relax(cell.s, Mul(one9thrho, Sub(Add(Add(One, uy3), Mul(FourPt5, uy2)), u215))),
          Relax(cell.ne, Mul(one36thrho,
                    Sub(Add(Sub(ux3p1, uy3), Mul(FourPt5, Sub(u2, uxuy2))), u215))),
          Relax(cell.nw, Mul(one36thrho,
                    Sub(Add(Sub(ux3m1, uy3), Mul(FourPt5, Add(u2, uxuy2))), u215))),
          Relax(cell.sw, Mul(one36thrho,
                    Sub(Add(Add(ux3m1, uy3), Mul(FourPt5, Sub(u2, uxuy2))), u215))),
          Relax(cell.se, Mul(one36thrho,
                    Sub(Add(Add(ux3p1, uy3), Mul(FourPt5, Add(u2, uxuy2))), u215))))

\* the nine assignments of collide for one cell
CollideCell(cell, om) ==
    LET rho == CellRho(cell)
        cux == CellUx(cell)
        cuy == CellUy(cell)
        ux3 == Mul(Three, cux)
        uy3 == Mul(Three, cuy)
        ux2 == Mul(cux, cux)
        uy2 == Mul(cuy, cuy)
        uxuy2 == Mul(Mul(Two, cux), cuy)
        u2 == Add(ux2, uy2)
        u215 == Mul(OnePt5, u2)
        one9thrho == Mul(ONE9TH, rho)
        one36thrho == Mul(ONE36TH, rho)
        ux3p1 == Add(One, ux3)
        ux3m1 == Sub(One, ux3)
        Relax(f, feq) == Add(f, Mul(om, Sub(feq, f)))
    IN  MkCell(
          Relax(cell.c, Mul(Mul(FOUR9THS, rho), Sub(One, u215))),
          Relax(cell.e, Mul(one9thrho, Sub(Add(ux3p1, Mul(FourPt5, ux2)), u215))),
          Relax(cell.n, Mul(one9thrho, Sub(Add(Sub(One, uy3), Mul(FourPt5, uy2)), u215))),
          Relax(cell.w, Mul(one9thrho, Sub(Add(ux3m1, Mul(FourPt5, ux2)), u215))),
          Relax(cell.s, Mul(one9thrho, Sub(Add(Add(One, uy3), Mul(FourPt5, uy2)), u215))),
          Relax(cell.ne, Mul(one36thrho,
                    Sub(Add(Sub(ux3p1, uy3), Mul(FourPt5, Sub(u2, uxuy2))), u215))),
          Relax(cell.nw, Mul(one36thrho,
                    Sub(Add(Sub(ux3m1, uy3), Mul(FourPt5, Add(u2, uxuy2))), u215))),
          Relax(cell.sw, Mul(one36thrho,
                    Sub(Add(Add(ux3m1, uy3), Mul(FourPt5, Sub(u2, uxuy2))), u215))),
          Relax(cell.se, Mul(one36thrho,
                    Sub(Add(Add(ux3p1, uy3), Mul(FourPt5, Add(u2, uxuy2))), u215))))

\* self.density / self.ux / self.uy after the loop of collide
CollideDensity(cells) == [idx \in DOMAIN density |->
    IF Relaxed(idx) THEN CellRho(cells[idx]) ELSE density[idx]]
CollideUx(cells) == [idx \in DOMAIN ux |->
    IF Relaxed(idx) THEN CellUx(cells[idx]) ELSE ux[idx]]
CollideUy(cells) == [idx \in DOMAIN uy |->
    IF Relaxed(idx) THEN CellUy(cells[idx]) ELSE uy[idx]]

\* self.curl after the loop: the loop runs by ascending idx, so when idx is
\* visited the entries at idx - 1 and idx - width hold this pass's values and
\* those at idx + 1 and idx + width still hold the previous pass's.
CollideCurl(newux, newuy) == [idx \in DOMAIN curl |->
    IF Relaxed(idx) /\ draw_mode = "Curl"
    THEN Add(Sub(Sub(uy[idx + 1], newuy[idx - 1]), ux[idx + width]), newux[idx - width])
    ELSE curl[idx]]

CollideCells(cells) == [idx \in DOMAIN cells |->
    IF Relaxed(idx) THEN CollideCell(cells[idx], omega) ELSE cells[idx]]

-----------------------------------------------------------------------------
(* tracers                                                                 *)

\* the (y, x) pairs of the nested loops of init_flow_particles, in loop order
SeedRows == 1 .. (height \div 10 - 1)
SeedCols == 1 .. (width \div 10 - 1)
SeedPairs ==
    LET nx == Cardinality(SeedCols)
        ny == Cardinality(SeedRows)
    IN  [k \in 1 .. (nx * ny) |-> <<((k - 1) \div nx) + 1, ((k - 1) % nx) + 1>>]

SeedKept == SelectSeq(SeedPairs, LAMBDA p : (p[1] * 10) * width + (p[2] * 10) \notin barrier_set)

\* one iteration of the loop of move_particles on the velocity fields fux, fuy:
\* the value left in flow_particles_x[idx] ...
MovedX(p_x, p_y, fux) ==
    LET lx == FloorU32(p_x)
        ly == FloorU32(p_y)
        moved == IF lx < width /\ ly < height THEN Add(p_x, fux[ly * width + lx]) ELSE p_x
    IN  IF Gt(flow_speed, Zero) /\ Gt(p_x, AsF64(width - 2)) THEN One ELSE moved

\* a move_particles whose reset replaces the move instead of following it
MovedY_ResetSkipsMove(p_x, p_y, fuy) ==
    LET lx == FloorU32(p_x)
        ly == FloorU32(p_y)
    IN  IF Gt(flow_speed, Zero) /\ Gt(p_x, AsF64(width - 2)) THEN p_y
        ELSE IF lx < width /\ ly < height THEN Add(p_y, fuy[ly * width + lx]) ELSE p_y

\* ... and in flow_particles_y[idx]
MovedY(p_x, p_y, fuy) ==
    LET lx == FloorU32(p_x)
        ly == FloorU32(p_y)
    IN  IF lx < width /\ ly < height THEN Add(p_y, fuy[ly * width + lx]) ELSE p_y

move_particles_x(fux) ==
    [idx \in DOMAIN flow_particles_x |->
        MovedX(flow_particles_x[idx], flow_particles_y[idx], fux)]
move_particles_y(fuy) ==
    [idx \in DOMAIN flow_particles_y |->
        MovedY(flow_particles_x[idx], flow_particles_y[idx], fuy)]

-----------------------------------------------------------------------------
(* Bounds and input sets of the model.                                     *)

\* largest steps_per_frame passed to Config::new / set_steps_per_frame
MaxStepsPerFrame == 2
\* most stream() executions in one behaviour
MaxStream == 2
\* most calls of a setter (set_*, add_barrier) in one behaviour
MaxCalls == 2
\* most tracers held at once
MaxTracers == 1

\* (width, height) pairs passed to Config::new
Dims == {<<2, 2>>, <<3, 3>>, <<4, 3>>, <<3, 4>>, <<4, 4>>}
\* inflow speeds
Speeds == {Zero, <<1, 2>>}
\* viscosities: omega = 1 and omega = 1/2
Viscosities == {<<1, 6>>, <<1, 2>>}
\* enum DrawMode
DrawModes == {"Speed", "XVelocity", "YVelocity", "Density", "Curl", "Nothing"}
\* the draw modes the model passes in
DrawInputs == {"Speed", "Curl"}

\* a cell whose nine components are pairwise different
ProbeCell == MkCell(Q(10, 36), Q(11, 36), Q(12, 36), Q(13, 36), Q(14, 36),
                    Q(15, 36), Q(16, 36), Q(17, 36), Q(18, 36))
\* the cells set_cell is called with
Palette == {ProbeCell, BoundaryCell(<<1, 2>>)}
\* the indices set_cell is called with: cell (1, 1) and the last cell
ProbeIdx == {width + 1, width * height - 1}

-----------------------------------------------------------------------------
(* Construction: Lattice::new(Config::new(..))                             *)

\* init_flow on the buffer `cells` for the barrier set `bs`
init_flow_cells(cells, bs, vx, vy, rho) ==
    [idx \in DOMAIN cells |-> IF idx \notin bs THEN InitFlowCell(vx, vy, rho) ELSE cells[idx]]
init_flow_field(field, bs, val) ==
    [idx \in DOMAIN field |-> IF idx \notin bs THEN val ELSE field[idx]]

\* the lattice Lattice::new builds, with `first` in its first buffer
Built(wid, hei, spf, speed, mode, viscosity, first) ==
    /\ width = wid
    /\ height = hei
    /\ steps_per_frame = spf
    /\ flow_speed = speed
    /\ draw_mode = mode
    /\ omega = OmegaOf(viscosity)
    /\ barrier_set = {}
    /\ barrier = <<>>
    /\ use_one = TRUE
    /\ cells_one = first
    /\ cells_two = make_vec(wid, hei, DefaultCell)
    /\ density = init_flow_field(make_vec(wid, hei, Zero), {}, One)
    /\ ux = init_flow_field(make_vec(wid, hei, Zero), {}, Zero)
    /\ uy = init_flow_field(make_vec(wid, hei, Zero), {}, Zero)
    /\ curl = make_vec(wid, hei, Zero)
    /\ flow_particles_x = <<>>
    /\ flow_particles_y = <<>>
    /\ pc = "idle"
    /\ step = 0
    /\ nstream = 0
    /\ ncalls = 0

New(wid, hei, spf, speed, mode, viscosity) ==
    Built(wid, hei, spf, speed, mode, viscosity,
          init_flow_cells(make_vec(wid, hei, DefaultCell), {}, Zero, Zero, One))

Init ==
    \E d \in Dims, spf \in 0 .. MaxStepsPerFrame, speed \in Speeds :
        New(d[1], d[2], spf, speed, "Speed", <<1, 6>>)

-----------------------------------------------------------------------------
(* Operations.  A mutator runs only between frames (pc = "idle"): the      *)
(* program is single-threaded and update() returns before the next call.   *)

config == <<width, height, steps_per_frame, flow_speed, draw_mode, omega>>
grid == <<cells_one, cells_two, use_one>>
fields == <<density, ux, uy, curl>>
barriers == <<barrier_set, barrier>>
tracers == <<flow_particles_x, flow_particles_y>>
frame == <<pc, step, nstream>>

Call ==
    /\ pc = "idle"
    /\ ncalls < MaxCalls
    /\ ncalls' = ncalls + 1

SetDrawMode(mode) ==
    /\ Call
    /\ draw_mode' = mode
    /\ UNCHANGED <<width, height, steps_per_frame, flow_speed, omega,
                   grid, fields, barriers, tracers, frame>>

SetViscosity(viscosity) ==
    /\ Call
    /\ omega' = OmegaOf(viscosity)
    /\ UNCHANGED <<width, height, steps_per_frame, flow_speed, draw_mode,
                   grid, fields, barriers, tracers, frame>>

SetFlowSpeed(speed) ==
    /\ Call
    /\ flow_speed' = speed
    /\ UNCHANGED <<width, height, steps_per_frame, draw_mode, omega,
                   grid, fields, barriers, tracers, frame>>

SetStepsPerFrame(spf) ==
    /\ Call
    /\ steps_per_frame' = spf
    /\ UNCHANGED <<width, height, flow_speed, draw_mode, omega,
                   grid, fields, barriers, tracers, frame>>

SetCell(new_cell, idx) ==
    /\ Call
    /\ idx \in Idx
    /\ IF use_one
       THEN cells_one' = [cells_one EXCEPT ![idx] = new_cell] /\ UNCHANGED cells_two
       ELSE cells_two' = [cells_two EXCEPT ![idx] = new_cell] /\ UNCHANGED cells_one
    /\ UNCHANGED <<config, use_one, fields, barriers, tracers, frame>>

ClearFlowParticles ==
    /\ pc = "idle"
    /\ flow_particles_x' = <<>>
    /\ flow_particles_y' = <<>>
    /\ UNCHANGED <<config, grid, fields, barriers, frame, ncalls>>

InitFlowParticles ==
    /\ pc = "idle"
    /\ Len(flow_particles_x) + Len(SeedKept) <= MaxTracers
    /\ flow_particles_x' = flow_particles_x \o
           [k \in 1 .. Len(SeedKept) |-> Mul(AsF64(SeedKept[k][2]), <<10, 1>>)]
    /\ flow_particles_y' = flow_particles_y \o
           [k \in 1 .. Len(SeedKept) |-> Mul(AsF64(SeedKept[k][1]), <<10, 1>>)]
    /\ UNCHANGED <<config, grid, fields, barriers, frame, ncalls>>

\* The source holds no operation that inserts into barrier_set; this one is
\* modelled from section 4.4 of the specification (membership set and ordered
\* list kept consistent), for indices all of whose eight neighbours lie in the
\* grid, where the indexing of stream's second loop stays inside the vectors.
AddBarrier(idx) ==
    /\ Call
    /\ idx \in Idx
    /\ ~OnRing(idx)
    /\ idx \notin barrier_set
    /\ barrier_set' = barrier_set \cup {idx}
    /\ barrier' = Append(barrier, idx)
    /\ UNCHANGED <<config, grid, fields, tracers, frame>>

\* update(): entry and set_boundaries
Update ==
    /\ pc = "idle"
    /\ nstream + steps_per_frame <= MaxStream
    /\ IF use_one
       THEN cells_one' = set_boundaries(cells_one) /\ UNCHANGED cells_two
       ELSE cells_two' = set_boundaries(cells_two) /\ UNCHANGED cells_one
    /\ pc' = "loop"
    /\ step' = 0
    /\ UNCHANGED <<config, use_one, fields, barriers, tracers, nstream, ncalls>>

\* a loop over 0..=steps_per_frame
LoopContinues_Inclusive == step <= steps_per_frame

\* `for _ in 0..self.config.steps_per_frame`: another pass is due
LoopContinues == step < steps_per_frame

\* update(): one more pass of the loop begins: stream()
Stream ==
    /\ pc = "loop"
    /\ LoopContinues
    /\ IF use_one
       THEN cells_two' = StreamInto(cells_one, cells_two) /\ UNCHANGED cells_one
       ELSE cells_one' = StreamInto(cells_two, cells_one) /\ UNCHANGED cells_two
    /\ use_one' = ~use_one
    /\ pc' = "collide"
    /\ nstream' = nstream + 1
    /\ UNCHANGED <<config, fields, barriers, tracers, step, ncalls>>

\* update(): the rest of the pass: collide(), then move_particles() if any tracer
CollideMove ==
    /\ pc = "collide"
    /\ density' = CollideDensity(Active)
    /\ ux' = CollideUx(Active)
    /\ uy' = CollideUy(Active)
    /\ curl' = CollideCurl(ux', uy')
    /\ IF use_one
       THEN cells_one' = CollideCells(cells_one) /\ UNCHANGED cells_two
       ELSE cells_two' = CollideCells(cells_two) /\ UNCHANGED cells_one
    /\ IF Len(flow_particles_x) > 0
       THEN /\ flow_particles_x' = move_particles_x(ux')
            /\ flow_particles_y' = move_particles_y(uy')
       ELSE UNCHANGED tracers
    /\ pc' = "loop"
    /\ step' = step + 1
    /\ UNCHANGED <<config, use_one, barriers, nstream, ncalls>>

\* update(): the loop is over, the call returns
UpdateReturn ==
    /\ pc = "loop"
    /\ ~LoopContinues
    /\ pc' = "idle"
    /\ UNCHANGED <<config, grid, fields, barriers, tracers, step, nstream, ncalls>>

Frame == Update \/ Stream \/ CollideMove \/ UpdateReturn

Next ==
    \/ \E mode \in DrawInputs : SetDrawMode(mode)
    \/ \E viscosity \in Viscosities : SetViscosity(viscosity)
    \/ \E speed \in Speeds : SetFlowSpeed(speed)
    \/ \E spf \in 0 .. MaxStepsPerFrame : SetStepsPerFrame(spf)
    \/ \E new_cell \in Palette, idx \in ProbeIdx : SetCell(new_cell, idx)
    \/ \E idx \in Idx : AddBarrier(idx)
    \/ InitFlowParticles
    \/ ClearFlowParticles
    \/ Frame

Spec == Init /\ [][Next]_vars

-----------------------------------------------------------------------------
(* Tracers: init_flow_particles seeds nothing below 20 x 20, so tracers    *)
(* are explored on grids of their own, with few other inputs.              *)

TracerDims == {<<20, 21>>}

\* the state init_flow leaves in a cell
RestCell == InitFlowCell(Zero, Zero, One)
\* a cell whose east component, streamed into the cell of the tracer seeded at
\* (10, 10), gives that cell the velocity (17/2, 0)
JetCell == [RestCell EXCEPT !.e = <<-46, 45>>]
JetIdx == 10 * width + 9
\* a cell with a raised center component, placed at (18, 9): the cell north of
\* the one the tracer is carried to
SkewCell == [RestCell EXCEPT !.c = <<41, 72>>]
SkewIdx == 9 * width + 18
\* the cell of the first tracer
SeedIdx == 10 * width + 10

InitTracer ==
    \E d \in TracerDims :
        New(d[1], d[2], MaxStepsPerFrame, <<1, 2>>, "Speed", <<1, 6>>)

NextTracer ==
    \/ InitFlowParticles
    \/ ClearFlowParticles
    \/ SetCell(JetCell, JetIdx)
    \/ SetCell(SkewCell, SkewIdx)
    \/ SetStepsPerFrame(0)
    \/ AddBarrier(SeedIdx)
    \/ Frame

SpecTracer == InitTracer /\ [][NextTracer]_vars

-----------------------------------------------------------------------------
(* collide on equilibrium distributions.  The start is the lattice after   *)
(* Lattice::new and set_cell(cell, idx) for every idx, where cell is what  *)
(* init_flow computes for (vx, vy, rho); then frames run.                  *)

EqVelocities == {<<-1, 4>>, Zero, <<1, 8>>}
EqDensities == {One, <<2, 1>>}
\* omega = 1, 1/2 and 25/14
EqViscosities == {<<1, 6>>, <<1, 2>>, <<1, 50>>}

InitCollide ==
    \E vx \in EqVelocities, vy \in EqVelocities, rho \in EqDensities,
       viscosity \in EqViscosities :
        Built(5, 5, 1, Zero, "Curl", viscosity,
              make_vec(5, 5, InitFlowCell(vx, vy, rho)))

SpecCollide == InitCollide /\ [][Frame]_vars

-----------------------------------------------------------------------------
(* Direction vectors.                                                      *)

\* the sign with which each component enters Cell::ux and Cell::uy
VelX(d) == IF d \in {"e", "ne", "se"} THEN 1 ELSE IF d \in {"w", "nw", "sw"} THEN -1 ELSE 0
VelY(d) == IF d \in {"s", "sw", "se"} THEN 1 ELSE IF d \in {"n", "ne", "nw"} THEN -1 ELSE 0

-----------------------------------------------------------------------------
(* Vocabulary of the properties.                                           *)

\* row 0, row height - 1, column 0, column width - 1
OuterRing ==
    {idx \in Idx : XOf(idx) \in {0, width - 1} \/ YOf(idx) \in {0, height - 1}}
Interior == Idx \ OuterRing

Exact(cell) == \A d \in Dirs : cell[d] # Unrep

Uniform(cells) == \A idx \in DOMAIN cells : cells[idx] = cells[0]

\* every value held by some component of some cell of the buffer
ValuesOf(cells) == {cells[idx][d] : idx \in DOMAIN cells, d \in Dirs}

\* stream() has just run: the buffer it read is now the inactive one
Streamed == pc = "collide"
\* set_boundaries has just run at the start of update()
BoundariesSet == pc = "loop" /\ step = 0
\* collide() (and move_particles, if any tracer) has just run
Collided == pc = "loop" /\ step > 0

\* the tracer cell move_particles looks up, if it lies in the grid
InGrid(p_x, p_y) == FloorU32(p_x) < width /\ FloorU32(p_y) < height
CellOf(p_x, p_y) == FloorU32(p_y) * width + FloorU32(p_x)

\* the tracers the reset of move_particles applies to
Leaving(k) == Gt(flow_speed, Zero) /\ Gt(flow_particles_x[k], AsF64(width - 2))

-----------------------------------------------------------------------------
(* C1 *)

\* C1: immediately after the set_boundaries that opens update(), every cell of
\* the outer ring of the active buffer, the four corners included, holds the
\* equilibrium distribution for (ux = flow_speed, uy = 0, rho = 1).
C1_RingAtEquilibrium ==
    BoundariesSet =>
        \A idx \in OuterRing : Active[idx] = InitFlowCell(flow_speed, Zero, One)

-----------------------------------------------------------------------------
(* C2 *)

\* C2 as stated: a tracer with x > width - 2 before an advection step, with
\* flow_speed > 0, has x = 1.0 and its old y after the step.
C2_ResetKeepsY ==
    [][CollideMove =>
        \A k \in DOMAIN flow_particles_x :
            Leaving(k) =>
                /\ flow_particles_x'[k] = One
                /\ flow_particles_y'[k] = flow_particles_y[k]]_vars

\* C2 amended: such a tracer has x = 1.0 after the step, and its y is its old y
\* plus the y-velocity entry of the cell at its floored position when that
\* cell lies in the grid, and its old y otherwise.
C2_ResetAdvectsY ==
    [][CollideMove =>
        \A k \in DOMAIN flow_particles_x :
            Leaving(k) =>
                /\ flow_particles_x'[k] = One
                /\ flow_particles_y'[k] =
                       IF InGrid(flow_particles_x[k], flow_particles_y[k])
                       THEN Add(flow_particles_y[k],
                                uy'[CellOf(flow_particles_x[k], flow_particles_y[k])])
                       ELSE flow_particles_y[k]]_vars

\* a tracer that left through the outlet has been put back at x = 1.0 with a
\* y that is a known number and no longer a seeded row
C2_TracerReset ==
    /\ Collided
    /\ Gt(flow_speed, Zero)
    /\ \E k \in DOMAIN flow_particles_x :
           /\ flow_particles_x[k] = One
           /\ flow_particles_y[k] # Unrep
           /\ flow_particles_y[k][2] # 1

-----------------------------------------------------------------------------
(* C3 *)

\* C3 as stated: after each collide(), for every cell index, the outer ring
\* included, the density, x-velocity and y-velocity entries are the values
\* derived in that step from the cell's distribution in the active buffer.
C3_AllEntriesWritten ==
    [][CollideMove =>
        \A idx \in Idx :
            /\ density'[idx] = CellRho(Active[idx])
            /\ ux'[idx] = CellUx(Active[idx])
            /\ uy'[idx] = CellUy(Active[idx])]_vars

\* C3 amended: after each collide(), for every cell that is neither on the
\* outer ring nor a barrier the three entries are the values derived in that
\* step from the cell's distribution; the entries of outer-ring cells and of
\* barrier cells are the ones held before the step.
C3_InteriorEntriesWritten ==
    [][CollideMove =>
        \A idx \in Idx :
            IF idx \in Interior /\ idx \notin barrier_set
            THEN /\ density'[idx] = CellRho(Active[idx])
                 /\ ux'[idx] = CellUx(Active[idx])
                 /\ uy'[idx] = CellUy(Active[idx])
            ELSE /\ density'[idx] = density[idx]
                 /\ ux'[idx] = ux[idx]
                 /\ uy'[idx] = uy[idx]]_vars

\* collide() has run; an interior entry holds a velocity written by it, and a
\* ring entry still holds its initial 0 although the ring cell flows
C3_StaleRingEntry ==
    /\ Collided
    /\ \E idx \in Interior : idx \notin barrier_set /\ ux[idx] \notin {Zero, Unrep}
    /\ \E idx \in OuterRing : ux[idx] = Zero /\ CellUx(Active[idx]) # Zero

-----------------------------------------------------------------------------
(* C4 *)

\* the grid positions C4 names
ClaimedSeeds ==
    {p \in (1 .. (width - 1)) \X (1 .. (height - 1)) :
        /\ p[1] % 10 = 0
        /\ p[2] % 10 = 0
        /\ p[2] * width + p[1] \notin barrier_set}

\* C4: init_flow_particles appends exactly one tracer (x, y) for every grid
\* position with x and y positive multiples of 10, x < width, y < height, that
\* is not a barrier, and no other tracer.
C4_SeedsEveryTenth ==
    [][InitFlowParticles =>
        LET n0 == Len(flow_particles_x)
            n1 == Len(flow_particles_x')
            added == {<<flow_particles_x'[k], flow_particles_y'[k]>> : k \in (n0 + 1) .. n1}
        IN  /\ Len(flow_particles_y') = n1
            /\ n1 - n0 = Cardinality(ClaimedSeeds)
            /\ added = {<<AsF64(p[1]), AsF64(p[2])>> : p \in ClaimedSeeds}]_vars

-----------------------------------------------------------------------------
(* C5 *)

\* the cell holds the equilibrium distribution, as init_flow writes it, of
\* its own density and velocity
AtOwnEquilibrium(cell) ==
    /\ Exact(cell)
    /\ cell = InitFlowCell(CellUx(cell), CellUy(cell), CellRho(cell))

-----------------------------------------------------------------------------
(* C6 *)

\* C6: if there is no barrier and every cell of the active buffer holds the
\* same nine values, then after one stream() every cell of the new active
\* buffer holds those nine values, whatever the other buffer held.
C6_UniformFieldStreams ==
    [][(Stream /\ barrier_set = {} /\ Uniform(Active)) =>
        \A idx \in Idx : Active'[idx] = Active[0]]_vars

\* stream() has run on a uniform flowing field of a grid with interior cells,
\* writing over a buffer that held other values
C6_UniformFlowStreamed ==
    /\ Streamed
    /\ barrier_set = {}
    /\ Interior # {}
    /\ Uniform(Inactive)
    /\ Exact(Inactive[0])
    /\ CellUx(Inactive[0]) # Zero
    /\ Uniform(Active)
    /\ Active[0] = Inactive[0]

-----------------------------------------------------------------------------
(* C7 *)

\* C7: update() with steps_per_frame = 0 changes nothing but outer-ring cells
\* of the active buffer: the flag, the interior cells of the active buffer, the
\* inactive buffer, the density, velocity and curl fields, the tracers, the
\* configuration and the barriers are as before.
C7_BoundaryOnlyFrame ==
    [][(steps_per_frame = 0 /\ Frame) =>
        /\ use_one' = use_one
        /\ Inactive' = Inactive
        /\ \A idx \in Interior : Active'[idx] = Active[idx]
        /\ UNCHANGED <<fields, tracers, config, barriers>>]_vars

\* the set_boundaries of an update() with steps_per_frame = 0 has run, after an
\* earlier frame moved a tracer and wrote the fields
C7_BoundaryOnlyFrameRan ==
    /\ BoundariesSet
    /\ steps_per_frame = 0
    /\ nstream > 0
    /\ Len(flow_particles_x) > 0
    /\ flow_particles_x[1] # AsF64(10)
    /\ \E idx \in Interior : ux[idx] # Zero
    /\ \E idx \in OuterRing : Active[idx] = InitFlowCell(flow_speed, Zero, One)

-----------------------------------------------------------------------------
(* C8 *)

\* the cell a component with direction d would come from if it travelled
\* along the vector (VelX(d), VelY(d))
Upstream(idx, d) == (YOf(idx) - VelY(d)) * width + (XOf(idx) - VelX(d))

\* C8: in stream(), with no barriers, every non-center component d of every
\* interior cell of the new active buffer is the component d of the cell at
\* (x, y) minus the vector with which d enters Cell::ux and Cell::uy; the
\* center component is the cell's own, and outer-ring cells are copied whole.
C8_StreamFollowsVelocity ==
    [][(Stream /\ barrier_set = {}) =>
        \A idx \in Idx :
            IF idx \in OuterRing
            THEN Active'[idx] = Active[idx]
            ELSE /\ Active'[idx].c = Active[idx].c
                 /\ \A d \in Dirs \ {"c"} :
                        Active'[idx][d] = Active[Upstream(idx, d)][d]]_vars

-----------------------------------------------------------------------------
(* C9 *)

\* a buffer no cell of which holds a value the program computes
Poison == make_vec(width, height,
                   MkCell(Unrep, Unrep, Unrep, Unrep, Unrep, Unrep, Unrep, Unrep, Unrep))

\* C9: each stream() toggles the flag once, leaves the buffer it read
\* unmodified, and writes every component of every cell of the other buffer
\* from the buffer it read, so its result does not depend on what the other
\* buffer held; no other step toggles the flag or touches the inactive buffer
\* (set_cell, set_boundaries and collide address the active one); update()
\* returns after steps_per_frame passes, and the flag has its initial value iff
\* the number of stream() executions so far is even.
C9_DoubleBuffer ==
    [][/\ Stream =>
            /\ use_one' = ~use_one
            /\ Inactive' = Active
            /\ Active' = StreamInto(Active, Poison)
            /\ ValuesOf(Active') \subseteq ValuesOf(Active)
       /\ ~Stream =>
            /\ use_one' = use_one
            /\ Inactive' = Inactive
       /\ UpdateReturn => step = steps_per_frame
       /\ use_one' <=> (nstream' % 2 = 0)]_vars

\* a second stream() has run: it wrote over the buffer the first one read, and
\* that buffer held values that the second one replaced in every cell
C9_SecondStreamRan ==
    /\ Streamed
    /\ nstream = 2
    /\ use_one
    /\ \E idx \in Interior : cells_one[idx] # cells_two[idx]
    /\ \A idx \in Idx : Exact(cells_one[idx])

-----------------------------------------------------------------------------
(* C10 *)

\* C10: after stream(), for every barrier cell b whose eight neighbours lie in
\* the grid, the component of each neighbour that stream copies out of b holds
\* the opposite component of b in the buffer stream read, not the bulk copy.
C10_BounceBackWins ==
    [][Stream =>
        \A b \in barrier_set \cap Interior :
            /\ Active'[b + 1].e = Active[b].w
            /\ Active'[b - 1].w = Active[b].e
            /\ Active'[b + width].n = Active[b].s
            /\ Active'[b - width].s = Active[b].n
            /\ Active'[b + width + 1].ne = Active[b].sw
            /\ Active'[b + width - 1].nw = Active[b].se
            /\ Active'[b - width - 1].sw = Active[b].ne
            /\ Active'[b - width + 1].se = Active[b].nw]_vars

\* stream() has run with a barrier whose reflected westward value differs
\* from the value the bulk copy put in the east slot of its east neighbour
C10_ReflectionOverwrote ==
    /\ Streamed
    /\ \E b \in barrier_set \cap Interior :
           /\ Active[b + 1].e = Inactive[b].w
           /\ Active[b + 1].e # StreamBulk(Inactive, Inactive)[b + 1].e
           /\ Active[b + 1].e # Unrep

====
